---- MODULE Spec2Model ----
(***************************************************************************)
(* A model of synthingie's core (src/synthingie/core.py): the Module       *)
(* (graph container) with its step list, the Signal nodes, the register()  *)
(* factory mechanism, the Value node, and Module.render.                   *)
(*                                                                         *)
(* Numbers are kept in hundredths (5 is 500, 3.14 is 314, 1.0 is 100).     *)
(* A duration is the float durK / DurDen with DurDen a power of two, so    *)
(* that duration_s * samplerate and the division by framesize are exact in *)
(* double precision and int() is the floor of the exact quotient.          *)
(***************************************************************************)
EXTENDS Integers, Sequences, FiniteSets, TLC

(* samplerate, framesize, steps: the fields of the one Module M;          *)
(* nodes: the Signal objects factories returned, by identity 1, 2, ...;   *)
(* attrs: the attributes of the classes; pending: the decorators that     *)
(* register() returned and that were not applied yet; pc, rnd: the        *)
(* position and the locals of a running render; calls: the compute steps *)
(* the last operation invoked, in order; ret: the outcome of the last call *)
VARIABLES samplerate, framesize, steps, nodes, attrs, pending, pc, rnd, calls, ret

vars == <<samplerate, framesize, steps, nodes, attrs, pending, pc, rnd, calls, ret>>

(* ------------------------------ bounds -------------------------------- *)
MaxNodes == 2
MaxRegistrations == 1
MaxRenderNodes == 1
MaxRate == 4
MaxFrame == 3
DurBits == 2
MaxDecorators == 2
MaxRegistryNodes == 1

DurDen == 2 ^ DurBits
(* the durations of up to one second, in steps of 1 / DurDen *)
Durations == 1 .. DurDen

(* ------------------------- Python values ------------------------------ *)
PyInt(h) == [tag |-> "int", val |-> h, buf |-> <<>>, str |-> ""]
PyFloat(h) == [tag |-> "float", val |-> h, buf |-> <<>>, str |-> ""]
PyStr(s) == [tag |-> "str", val |-> 0, buf |-> <<>>, str |-> s]
PyClass(c) == [tag |-> "class", val |-> 0, buf |-> <<>>, str |-> c]
PyNone == [tag |-> "none", val |-> 0, buf |-> <<>>, str |-> ""]
PySignal(n) == [tag |-> "signal", val |-> n, buf |-> <<>>, str |-> ""]
NdArray(s) == [tag |-> "ndarray", val |-> 0, buf |-> s, str |-> ""]

(* the numbers nodes are created with, the values set() is called with,  *)
(* and values that are neither numbers nor Signals                        *)
Numbers == {PyInt(500), PyFloat(100)}
NonNumbers == {PyStr("not a number"), PyNone}
SetValues == {PyFloat(314)} \cup NonNumbers

(* np.zeros(n) *)
Zeros(n) == [k \in 1 .. n |-> 0]

(* isinstance(value, (int, float, str)): a string taken for a number *)
IsNumberOrStr(v) == v.tag \in {"int", "float", "str"}

(* isinstance(value, (int, float)) *)
IsNumber(v) == v.tag \in {"int", "float"}

(* isinstance(value, Signal) *)
IsSignal(v) == v.tag = "signal"


PyModule == [tag |-> "module", val |-> 0, buf |-> <<>>, str |-> ""]

(* ------------------------- classes and names -------------------------- *)
(* Signal and Module are the classes of the source; Value is the          *)
(* registered subclass of Signal; Op stands for a user-defined subclass   *)
(* of Signal whose init(self, source) takes exactly one argument; Audio   *)
(* is a class that is no Signal at all.                                   *)
Classes == {"Signal", "Module", "Value", "Op", "Audio"}
MethodClasses == {"Value", "Op"}
Names == {"value", "gain"}

(* the method resolution order of a class *)
Mro(cls) ==
  CASE cls = "Value" -> <<"Value", "Signal">>
    [] cls = "Op" -> <<"Op", "Signal">>
    [] OTHER -> <<cls>>

(* getattr(cls, name): the first class of the mro that has the name *)
GetAttr(cls, name) ==
  LET found == {i \in 1 .. Len(Mro(cls)) : attrs[Mro(cls)[i]][name] # "absent"}
  IN IF found = {} THEN "absent"
     ELSE attrs[Mro(cls)[CHOOSE i \in found : \A j \in found : i <= j]][name]

(* the name looked up on every class instead of on base_class *)
HasAttrAnywhere(cls, name) == \E c \in Classes : GetAttr(c, name) # "absent"

(* hasattr(base_class, method_name) *)
HasAttr(cls, name) == GetAttr(cls, name) # "absent"

(* the class attributes under the names of Names once core.py is         *)
(* imported: the factory "value" installed on Module at line 173          *)
InitAttrs ==
  [c \in Classes |->
     [n \in Names |->
        IF c = "Module" /\ n = "value" THEN "Value" ELSE "absent"]]

(* ------------------------------ Signal -------------------------------- *)
(* a constructor that takes framesize for samplerate and the reverse *)
SignalNewSwapped(cls, module, sr, fs) ==
  [cls |-> cls, module |-> module, samplerate |-> fs, framesize |-> sr,
   output |-> NdArray(Zeros(sr)), setv |-> PyNone, inits |-> 0]

(* Signal.__init__; setv and inits are history fields: the last value     *)
(* set() stored, and the number of init calls that completed              *)
SignalNew(cls, module, sr, fs) ==
  [cls |-> cls, module |-> module, samplerate |-> sr, framesize |-> fs,
   output |-> NdArray(Zeros(fs)), setv |-> PyNone, inits |-> 0]

(* a compute step that refills the output buffer *)
NodeCallRefill(node) == [node EXCEPT !.output = NdArray(Zeros(node.framesize))]

(* Signal.__call__ and Value.__call__: the compute step does nothing *)
NodeCall(node) == node

(* Value.set *)
(* a set that stores the value before it validates it *)
ValueSetStoresFirst(node, value) ==
  IF ~IsNumber(value)
  THEN [err |-> "ValueError", node |-> [node EXCEPT !.output = value, !.setv = value]]
  ELSE [err |-> "none", node |-> [node EXCEPT !.output = value, !.setv = value]]

ValueSet(node, value) ==
  IF ~IsNumber(value)
  THEN [err |-> "ValueError", node |-> node]
  ELSE [err |-> "none", node |-> [node EXCEPT !.output = value, !.setv = value]]

(* Value.init(value) *)
ValueInit(node, args) ==
  IF Len(args) # 1
  THEN [err |-> "TypeError", node |-> node]
  ELSE LET r == ValueSet(node, args[1])
       IN IF r.err # "none" THEN r
          ELSE [err |-> "none", node |-> [r.node EXCEPT !.inits = @ + 1]]

(* Signal.init(): no parameters, does nothing *)
SignalInit(node, args) ==
  IF Len(args) # 0
  THEN [err |-> "TypeError", node |-> node]
  ELSE [err |-> "none", node |-> [node EXCEPT !.inits = @ + 1]]

(* the init(self, source) of Op, a Signal subclass a caller registers:    *)
(* one parameter, stored nowhere the core reads                           *)
OpInit(node, args) ==
  IF Len(args) # 1
  THEN [err |-> "TypeError", node |-> node]
  ELSE [err |-> "none", node |-> [node EXCEPT !.inits = @ + 1]]

(* operation.init(...) dispatched on the class of the operation *)
NodeInit(node, args) ==
  CASE node.cls = "Value" -> ValueInit(node, args)
    [] node.cls = "Op" -> OpInit(node, args)
    [] OTHER -> SignalInit(node, args)

(* ------------------------------ Module -------------------------------- *)
(* the locals of render; counts is a history field: the compute steps of  *)
(* each node that the frames of this render invoked                       *)
NoRender ==
  [target |-> 0, dur |-> 0, num_frames |-> 0, i |-> 0, output |-> <<>>, counts |-> <<>>]

(* what the last call was and how it ended: its arguments, the exception   *)
(* it raised ("none" when it returned), the value it returned, and the   *)
(* argument lists of the init calls it made                               *)
Result(op, args, err, val) ==
  [op |-> op, args |-> args, err |-> err, val |-> val, init |-> <<>>]

(* the instances a caller holds: the module and the nodes factories returned *)
Instances == {PyModule} \cup {PySignal(n) : n \in 1 .. Len(nodes)}

ClassOf(self) == IF self.tag = "module" THEN "Module" ELSE nodes[self.val].cls

(* self.module, self.samplerate, self.framesize of a module or a node *)
Owner(self) ==
  IF self.tag = "module"
  THEN [module |-> "M", samplerate |-> samplerate, framesize |-> framesize]
  ELSE [module |-> nodes[self.val].module, samplerate |-> nodes[self.val].samplerate,
        framesize |-> nodes[self.val].framesize]

(* a wrapper that appends the operation before and after init *)
WrapperAppendsTwice(self, method_class, args) ==
  LET operation == SignalNew(method_class, Owner(self).module,
                             Owner(self).samplerate, Owner(self).framesize)
      initargs == IF IsSignal(self) THEN <<self>> \o args ELSE args
      inited == NodeInit(operation, initargs)
  IN IF inited.err # "none"
     THEN [err |-> inited.err, val |-> PyNone, nodes |-> nodes, steps |-> steps,
           init |-> <<initargs>>]
     ELSE [err |-> "none", val |-> PySignal(Len(nodes) + 1), init |-> <<initargs>>,
           nodes |-> Append(nodes, inited.node),
           steps |-> steps \o <<Len(nodes) + 1, Len(nodes) + 1>>]

(* a wrapper that puts the operation at the head of the step list *)
WrapperPrepends(self, method_class, args) ==
  LET operation == SignalNew(method_class, Owner(self).module,
                             Owner(self).samplerate, Owner(self).framesize)
      initargs == IF IsSignal(self) THEN <<self>> \o args ELSE args
      inited == NodeInit(operation, initargs)
  IN IF inited.err # "none"
     THEN [err |-> inited.err, val |-> PyNone, nodes |-> nodes, steps |-> steps,
           init |-> <<initargs>>]
     ELSE [err |-> "none", val |-> PySignal(Len(nodes) + 1), init |-> <<initargs>>,
           nodes |-> Append(nodes, inited.node),
           steps |-> <<Len(nodes) + 1>> \o steps]

(* a wrapper that passes self to init whatever self is *)
WrapperAlwaysSelf(self, method_class, args) ==
  LET operation == SignalNew(method_class, Owner(self).module,
                             Owner(self).samplerate, Owner(self).framesize)
      initargs == <<self>> \o args
      inited == NodeInit(operation, initargs)
  IN IF inited.err # "none"
     THEN [err |-> inited.err, val |-> PyNone, nodes |-> nodes, steps |-> steps,
           init |-> <<initargs>>]
     ELSE [err |-> "none", val |-> PySignal(Len(nodes) + 1), init |-> <<initargs>>,
           nodes |-> Append(nodes, inited.node),
           steps |-> Append(steps, Len(nodes) + 1)]

(* a wrapper that appends the operation before it calls init *)
WrapperAppendsFirst(self, method_class, args) ==
  LET operation == SignalNew(method_class, Owner(self).module,
                             Owner(self).samplerate, Owner(self).framesize)
      initargs == IF IsSignal(self) THEN <<self>> \o args ELSE args
      inited == NodeInit(operation, initargs)
  IN IF inited.err # "none"
     THEN [err |-> inited.err, val |-> PyNone, init |-> <<initargs>>,
           nodes |-> Append(nodes, operation),
           steps |-> Append(steps, Len(nodes) + 1)]
     ELSE [err |-> "none", val |-> PySignal(Len(nodes) + 1), init |-> <<initargs>>,
           nodes |-> Append(nodes, inited.node),
           steps |-> Append(steps, Len(nodes) + 1)]

(* register.decorator.wrapper, lines 159-167: construct, init, append,    *)
(* return; an exception of init leaves before the append                  *)
Wrapper(self, method_class, args) ==
  LET operation == SignalNew(method_class, Owner(self).module,
                             Owner(self).samplerate, Owner(self).framesize)
      initargs == IF IsSignal(self) THEN <<self>> \o args ELSE args
      inited == NodeInit(operation, initargs)
  IN IF inited.err # "none"
     THEN [err |-> inited.err, val |-> PyNone, nodes |-> nodes, steps |-> steps,
           init |-> <<initargs>>]
     ELSE [err |-> "none", val |-> PySignal(Len(nodes) + 1), init |-> <<initargs>>,
           nodes |-> Append(nodes, inited.node),
           steps |-> Append(steps, Len(nodes) + 1)]

(* a call self.name(args) of an installed factory *)
CallFactory(self, name, args) ==
  /\ pc = "idle"
  /\ GetAttr(ClassOf(self), name) \in MethodClasses
  /\ LET w == Wrapper(self, GetAttr(ClassOf(self), name), args)
     IN /\ nodes' = w.nodes
        /\ steps' = w.steps
        /\ ret' = [Result("factory", <<self, PyStr(name)>> \o args, w.err, w.val)
                     EXCEPT !.init = w.init]
  /\ calls' = <<>>
  /\ UNCHANGED <<samplerate, framesize, attrs, pending, pc, rnd>>

(* an as_signal that registers the Signal it is given once more *)
AsSignalRegisters(value) ==
  IF IsNumber(value)
  THEN Wrapper(PyModule, GetAttr("Module", "value"), <<value>>)
  ELSE IF IsSignal(value)
  THEN [err |-> "none", val |-> value, nodes |-> nodes, steps |-> Append(steps, value.val),
        init |-> <<>>]
  ELSE [err |-> "ValueError", val |-> PyNone, nodes |-> nodes, steps |-> steps, init |-> <<>>]

(* Module.as_signal, lines 106-112: what it raises or returns, and the    *)
(* nodes and steps it leaves                                              *)
AsSignalOutcome(value) ==
  IF IsNumber(value)
  THEN Wrapper(PyModule, GetAttr("Module", "value"), <<value>>)
  ELSE IF IsSignal(value)
  THEN [err |-> "none", val |-> value, nodes |-> nodes, steps |-> steps, init |-> <<>>]
  ELSE [err |-> "ValueError", val |-> PyNone, nodes |-> nodes, steps |-> steps, init |-> <<>>]

AsSignal(value) ==
  /\ pc = "idle"
  /\ GetAttr("Module", "value") \in MethodClasses
  /\ LET w == AsSignalOutcome(value)
     IN /\ nodes' = w.nodes
        /\ steps' = w.steps
        /\ ret' = [Result("as_signal", <<value>>, w.err, w.val) EXCEPT !.init = w.init]
  /\ calls' = <<>>
  /\ UNCHANGED <<samplerate, framesize, attrs, pending, pc, rnd>>

(* a loop that runs the steps from the last to the first *)
RECURSIVE RunStepsReversed(_, _, _)
RunStepsReversed(todo, ns, log) ==
  IF todo = <<>> THEN [nodes |-> ns, calls |-> log]
  ELSE RunStepsReversed(SubSeq(todo, 1, Len(todo) - 1),
                        [ns EXCEPT ![todo[Len(todo)]] = NodeCall(ns[todo[Len(todo)]])],
                        Append(log, todo[Len(todo)]))

(* a loop that runs every other step of the list *)
RECURSIVE RunStepsEveryOther(_, _, _)
RunStepsEveryOther(todo, ns, log) ==
  IF todo = <<>> THEN [nodes |-> ns, calls |-> log]
  ELSE RunStepsEveryOther(IF Len(todo) = 1 THEN <<>> ELSE Tail(Tail(todo)),
                          [ns EXCEPT ![Head(todo)] = NodeCall(ns[Head(todo)])],
                          Append(log, Head(todo)))

(* the loop of Module.render_frames: [ns, log] after the steps of todo *)
RECURSIVE RunSteps(_, _, _)
RunSteps(todo, ns, log) ==
  IF todo = <<>> THEN [nodes |-> ns, calls |-> log]
  ELSE RunSteps(Tail(todo),
                [ns EXCEPT ![Head(todo)] = NodeCall(ns[Head(todo)])],
                Append(log, Head(todo)))

(* Module.render_frames, called by the user *)
RenderFrames ==
  /\ pc = "idle"
  /\ LET run == RunSteps(steps, nodes, <<>>)
     IN /\ nodes' = run.nodes
        /\ calls' = run.calls
  /\ ret' = Result("render_frames", <<>>, "none", PyNone)
  /\ UNCHANGED <<samplerate, framesize, steps, attrs, pending, pc, rnd>>

(* a direct call node() of a node's compute step *)
Call(n) ==
  /\ pc = "idle"
  /\ nodes' = [nodes EXCEPT ![n] = NodeCall(nodes[n])]
  /\ ret' = Result("call", <<PySignal(n)>>, "none", PyNone)
  /\ calls' = <<n>>
  /\ UNCHANGED <<samplerate, framesize, steps, attrs, pending, pc, rnd>>

(* node.set(value) on a Value node *)
Set(n, value) ==
  /\ pc = "idle"
  /\ nodes[n].cls = "Value"
  /\ LET r == ValueSet(nodes[n], value)
     IN /\ nodes' = [nodes EXCEPT ![n] = r.node]
        /\ ret' = Result("set", <<PySignal(n), value>>, r.err, PyNone)
  /\ calls' = <<>>
  /\ UNCHANGED <<samplerate, framesize, steps, attrs, pending, pc, rnd>>

(* ------------------------------ render -------------------------------- *)
(* the float durK / DurDen passed as duration_s *)
PyDur(durK) == [tag |-> "duration", val |-> durK, buf |-> <<>>, str |-> ""]

(* Audio(samplerate, samples) *)
PyAudio(rate, samples) == [tag |-> "audio", val |-> rate, buf |-> samples, str |-> ""]

(* the frame count without the extra frame *)
NumFramesNoExtra(durK, sr, fs) == (durK * sr) \div (DurDen * fs)

(* ceil(duration_s * samplerate / framesize) + 1 *)
NumFramesCeil(durK, sr, fs) == ((durK * sr + DurDen * fs - 1) \div (DurDen * fs)) + 1

(* int(duration_s * self.samplerate / self.framesize) + 1, line 122 *)
NumFrames(durK, sr, fs) == ((durK * sr) \div (DurDen * fs)) + 1

(* round(duration_s * samplerate), halves rounded to the even neighbour *)
NumSamplesRounded(durK, sr) ==
  LET q == (durK * sr) \div DurDen
      r == (durK * sr) % DurDen
  IN IF 2 * r < DurDen THEN q
     ELSE IF 2 * r > DurDen THEN q + 1
     ELSE IF q % 2 = 0 THEN q ELSE q + 1

(* int(duration_s * self.samplerate), line 143 *)
NumSamples(durK, sr) == (durK * sr) \div DurDen

(* the float64 a Python number becomes when stored in the output array *)
ToFloat64(v) == v.val

(* a slice assignment that stores a scalar in the first element only *)
SliceAssignFirst(output, lo, hi, value) ==
  [k \in 1 .. Len(output) |->
     IF k > lo /\ k <= hi
     THEN IF value.tag = "ndarray" THEN value.buf[k - lo]
          ELSE IF k = lo + 1 THEN ToFloat64(value) ELSE output[k]
     ELSE output[k]]

(* output[lo:hi] = value, with a scalar broadcast over the slice *)
SliceAssign(output, lo, hi, value) ==
  [k \in 1 .. Len(output) |->
     IF k > lo /\ k <= hi
     THEN IF value.tag = "ndarray" THEN value.buf[k - lo] ELSE ToFloat64(value)
     ELSE output[k]]

(* output[:n] *)
SliceTo(output, n) == SubSeq(output, 1, IF n < Len(output) THEN n ELSE Len(output))

(* Module.render up to its loop, lines 119-123 *)
Render(target, durK) ==
  /\ pc = "idle"
  /\ pc' = "render"
  /\ rnd' = [target |-> target, dur |-> durK,
             num_frames |-> NumFrames(durK, samplerate, framesize),
             i |-> 0,
             output |-> Zeros(NumFrames(durK, samplerate, framesize) * framesize),
             counts |-> [n \in 1 .. Len(nodes) |-> 0]]
  /\ ret' = Result("render", <<PySignal(target), PyDur(durK)>>, "running", PyNone)
  /\ calls' = <<>>
  /\ UNCHANGED <<samplerate, framesize, steps, nodes, attrs, pending>>

(* one iteration of the loop of Module.render, lines 124-128 *)
RenderFrame ==
  /\ pc = "render"
  /\ rnd.i < rnd.num_frames
  /\ LET run == RunSteps(steps, nodes, <<>>)
     IN /\ nodes' = run.nodes
        /\ calls' = run.calls
        /\ rnd' = [rnd EXCEPT !.i = rnd.i + 1,
                              !.output = SliceAssign(rnd.output, rnd.i * framesize,
                                                     (rnd.i + 1) * framesize,
                                                     run.nodes[rnd.target].output),
                              !.counts = [n \in 1 .. Len(nodes) |->
                                            rnd.counts[n] + Cardinality(
                                              {k \in 1 .. Len(run.calls) : run.calls[k] = n})]]
  /\ UNCHANGED <<samplerate, framesize, steps, attrs, pending, pc, ret>>

(* the return of Module.render, line 143 (profile is False: the report    *)
(* of lines 130-142 only prints)                                          *)
RenderReturn ==
  /\ pc = "render"
  /\ rnd.i = rnd.num_frames
  /\ pc' = "idle"
  /\ rnd' = NoRender
  /\ ret' = [ret EXCEPT !.err = "none",
                        !.val = PyAudio(samplerate,
                                        SliceTo(rnd.output, NumSamples(rnd.dur, samplerate)))]
  /\ UNCHANGED <<samplerate, framesize, steps, nodes, attrs, pending, calls>>

(* ----------------------------- register ------------------------------- *)
RECURSIVE SumOver(_, _)
SumOver(f, S) ==
  IF S = {} THEN 0 ELSE LET x == CHOOSE y \in S : TRUE IN f[x] + SumOver(f, S \ {x})

(* the decorators register() returned that were not applied yet, and the  *)
(* names installed since import                                           *)
PendingTotal == SumOver([c \in Classes |-> SumOver(pending[c], Names)], Classes)
Installed == Cardinality({cn \in Classes \X Names : attrs[cn[1]][cn[2]] # InitAttrs[cn[1]][cn[2]]})

(* checks that accept every subclass of Signal or Module as base_class *)
RegisterErrorSubclass(base_class, method_name) ==
  IF \A i \in 1 .. Len(Mro(base_class)) : Mro(base_class)[i] \notin {"Signal", "Module"}
  THEN "ValueError"
  ELSE IF HasAttr(base_class, method_name) THEN "NameError"
  ELSE "none"

(* the checks of register(base_class, method_name), lines 147-155 *)
RegisterError(base_class, method_name) ==
  IF base_class \notin {"Signal", "Module"} THEN "ValueError"
  ELSE IF HasAttr(base_class, method_name) THEN "NameError"
  ELSE "none"

(* register(base_class, method_name): raises, or returns the decorator *)
Register(base_class, method_name) ==
  /\ pc = "idle"
  /\ LET e == RegisterError(base_class, method_name)
     IN /\ pending' = IF e = "none"
                      THEN [pending EXCEPT ![base_class][method_name] = @ + 1]
                      ELSE pending
        /\ ret' = Result("register", <<PyClass(base_class), PyStr(method_name)>>, e, PyNone)
  /\ calls' = <<>>
  /\ UNCHANGED <<samplerate, framesize, steps, nodes, attrs, pc, rnd>>

(* decorator(method_class), lines 157-169: setattr(base_class, method_name, wrapper) *)
Decorator(base_class, method_name, method_class) ==
  /\ pc = "idle"
  /\ pending[base_class][method_name] > 0
  /\ pending' = [pending EXCEPT ![base_class][method_name] = @ - 1]
  /\ attrs' = [attrs EXCEPT ![base_class][method_name] = method_class]
  /\ ret' = Result("decorator", <<PyClass(base_class), PyStr(method_name), PyClass(method_class)>>,
                  "none", PyClass(method_class))
  /\ calls' = <<>>
  /\ UNCHANGED <<samplerate, framesize, steps, nodes, pc, rnd>>

(* --------------------------- specifications --------------------------- *)
(* the argument lists factories are called with *)
ArgLists == {<<>>, <<PyInt(500)>>, <<PyStr("not a number")>>}

InitWith(configs) ==
  /\ \E c \in configs : samplerate = c[1] /\ framesize = c[2]
  /\ steps = <<>>
  /\ nodes = <<>>
  /\ attrs = InitAttrs
  /\ pending = [c \in Classes |-> [n \in Names |-> 0]]
  /\ pc = "idle"
  /\ rnd = NoRender
  /\ calls = <<>>
  /\ ret = Result("import", <<>>, "none", PyNone)

(* graph construction, the registry and rendering at one small            *)
(* configuration, with renders of the shortest duration and of one second *)
Init == InitWith({<<3, 2>>})

Next ==
  \/ \E self \in Instances, name \in Names, args \in ArgLists :
       Len(nodes) < MaxNodes /\ CallFactory(self, name, args)
  \/ \E value \in Numbers \cup NonNumbers \cup {PySignal(n) : n \in 1 .. Len(nodes)} :
       (IsNumber(value) => Len(nodes) < MaxNodes) /\ AsSignal(value)
  \/ RenderFrames
  \/ \E n \in 1 .. Len(nodes) : Call(n)
  \/ \E n \in 1 .. Len(nodes), value \in SetValues : Set(n, value)
  \/ \E n \in 1 .. Len(nodes), durK \in {1, DurDen} : Render(n, durK)
  \/ RenderFrame
  \/ RenderReturn
  \/ \E base_class \in Classes, method_name \in Names :
       (RegisterError(base_class, method_name) = "none" => PendingTotal + Installed < MaxRegistrations)
       /\ Register(base_class, method_name)
  \/ \E base_class \in Classes, method_name \in Names, method_class \in MethodClasses :
       Decorator(base_class, method_name, method_class)

Spec == Init /\ [][Next]_vars

(* rendering of constant-value nodes over a range of configurations and   *)
(* at sample rate 8000 with frames of 256 samples                         *)
InitRender == InitWith(((1 .. MaxRate) \X (1 .. MaxFrame)) \cup {<<8000, 256>>})

NextRender ==
  \/ \E value \in Numbers : Len(nodes) < MaxRenderNodes /\ CallFactory(PyModule, "value", <<value>>)
  \/ \E n \in 1 .. Len(nodes), durK \in Durations : Render(n, durK)
  \/ RenderFrame
  \/ RenderReturn

SpecRender == InitRender /\ [][NextRender]_vars

(* the registry alone: register calls whose decorators are applied at    *)
(* any later time, and calls of the factories they install                *)
NextRegistry ==
  \/ \E base_class \in Classes, method_name \in Names :
       (RegisterError(base_class, method_name) = "none" => PendingTotal + Installed < MaxDecorators)
       /\ Register(base_class, method_name)
  \/ \E base_class \in Classes, method_name \in Names, method_class \in MethodClasses :
       Decorator(base_class, method_name, method_class)
  \/ \E self \in Instances, name \in Names, args \in ArgLists :
       Len(nodes) < MaxRegistryNodes /\ CallFactory(self, name, args)

SpecRegistry == Init /\ [][NextRegistry]_vars

(* ------------------------------ claims -------------------------------- *)
Accepted == {"Signal", "Module"}
OtherOwner(c) == IF c = "Signal" THEN "Module" ELSE "Signal"

(* a render has returned its Audio *)
Rendered == ret.op = "render" /\ ret.err = "none"
RenderedSamples == ret.val.buf
RenderedDur == ret.args[2].val
RenderedTarget == ret.args[1].val

(* C1 as the spec states it: render returns exactly                       *)
(* round(duration_seconds * sample_rate) samples.                         *)
C1_RoundedLength ==
  Rendered => Len(RenderedSamples) = NumSamplesRounded(RenderedDur, samplerate)

(* C1, amended: render returns exactly floor(duration_seconds *           *)
(* sample_rate) samples: the n with n <= duration * rate < n + 1.         *)
C1_FloorLength ==
  Rendered =>
    /\ Len(RenderedSamples) * DurDen <= RenderedDur * samplerate
    /\ RenderedDur * samplerate < (Len(RenderedSamples) + 1) * DurDen

(* a render returned where duration * rate is no integer *)
C1_Witness ==
  /\ Rendered
  /\ (RenderedDur * samplerate) % DurDen # 0
  /\ Len(RenderedSamples) > 0

(* C2: one run_frame performs exactly one compute invocation per          *)
(* registered node, in the order of registration (the i-th invocation is  *)
(* of the i-th node a factory created).                                   *)
C2_RunFrameOrder ==
  (ret.op = "render_frames" \/ (pc = "render" /\ rnd.i > 0)) =>
    /\ Len(calls) = Len(steps)
    /\ Len(calls) = Len(nodes)
    /\ \A i \in 1 .. Len(calls) : calls[i] = steps[i] /\ calls[i] = i

(* run_frame has run over two nodes of different kinds *)
C2_Witness ==
  /\ ret.op = "render_frames"
  /\ Len(steps) >= 2
  /\ nodes[steps[1]].cls # nodes[steps[2]].cls
  /\ Len(calls) = Len(steps)

(* the loop of render has ended *)
LoopDone == pc = "render" /\ rnd.i = rnd.num_frames

(* C3 as the spec states it: render runs ceil(duration * rate /           *)
(* frame_size) + 1 frames.                                                *)
C3_CeilFrames ==
  LoopDone =>
    /\ (rnd.i - 2) * DurDen * framesize < rnd.dur * samplerate
    /\ rnd.dur * samplerate <= (rnd.i - 1) * DurDen * framesize

(* C3, amended: render runs floor(duration * rate / frame_size) + 1       *)
(* frames, and the output buffer has that many frames of frame_size       *)
(* samples.                                                               *)
C3_FloorFrames ==
  /\ LoopDone =>
       /\ (rnd.i - 1) * DurDen * framesize <= rnd.dur * samplerate
       /\ rnd.dur * samplerate < rnd.i * DurDen * framesize
       /\ Len(rnd.output) = rnd.i * framesize
  /\ pc = "render" => rnd.i <= rnd.num_frames /\ Len(rnd.output) = rnd.num_frames * framesize

(* the loop ended where duration * rate is no multiple of frame_size *)
C3_Witness ==
  /\ LoopDone
  /\ (rnd.dur * samplerate) % (DurDen * framesize) # 0
  /\ rnd.i >= 2

(* C4: as_signal of a number v returns a new Value node whose output      *)
(* equals v, appended to the step list exactly once, at its end.          *)
C4_WrapNumber ==
  [][(ret'.op = "as_signal" /\ ret'.args[1] \in Numbers) =>
       /\ ret'.err = "none"
       /\ ret'.val.tag = "signal"
       /\ ret'.val.val \notin 1 .. Len(nodes)
       /\ ret'.val.val \in 1 .. Len(nodes')
       /\ nodes'[ret'.val.val].cls = "Value"
       /\ nodes'[ret'.val.val].output.tag \in {"int", "float"}
       /\ nodes'[ret'.val.val].output.val = ret'.args[1].val
       /\ steps' = Append(steps, ret'.val.val)
       /\ \A i \in 1 .. Len(steps) : steps[i] # ret'.val.val
       /\ \A n \in 1 .. Len(nodes) : nodes'[n] = nodes[n]]_vars

(* as_signal of a number returned on a module that had a step already *)
C4_Witness ==
  /\ ret.op = "as_signal"
  /\ ret.args[1] \in Numbers
  /\ ret.err = "none"
  /\ Len(steps) >= 2

(* C5: as_signal of an existing Signal returns that Signal and leaves     *)
(* the step list as it was.                                               *)
C5_WrapSignal ==
  [][(ret'.op = "as_signal" /\ ret'.args[1].tag = "signal") =>
       /\ ret'.err = "none"
       /\ ret'.val = ret'.args[1]
       /\ steps' = steps
       /\ nodes' = nodes]_vars

(* as_signal of the first of two registered nodes returned *)
C5_Witness ==
  /\ ret.op = "as_signal"
  /\ ret.args[1].tag = "signal"
  /\ ret.args[1].val = 1
  /\ Len(steps) >= 2

(* C6: as_signal of a value that is neither a number nor a Signal fails   *)
(* with the unsupported-coercion error (ValueError) and registers nothing. *)
C6_WrapOther ==
  [][(ret'.op = "as_signal" /\ ret'.args[1].tag \notin {"int", "float", "signal"}) =>
       /\ ret'.err = "ValueError"
       /\ steps' = steps
       /\ nodes' = nodes]_vars

(* as_signal of a string failed on a module that has steps *)
C6_Witness ==
  /\ ret.op = "as_signal"
  /\ ret.args[1].tag = "str"
  /\ ret.err = "ValueError"
  /\ Len(steps) >= 1

(* the owner type and the name a register or decorator call was given *)
RegBase(r) == r.args[1].str
RegName(r) == r.args[2].str

(* C7: register(owner_type, name) fails with the duplicate-registration   *)
(* error (NameError) when the name is present on owner_type; with the     *)
(* name present on the other recognized owner type only, it succeeds, and *)
(* the decorator it returns installs the factory on owner_type alone.     *)
C7_Duplicate ==
  [][/\ (ret'.op = "register" /\ RegBase(ret') \in Accepted) =>
          IF attrs[RegBase(ret')][RegName(ret')] # "absent"
          THEN /\ ret'.err = "NameError"
               /\ pending' = pending
               /\ attrs' = attrs
          ELSE attrs[OtherOwner(RegBase(ret'))][RegName(ret')] # "absent" =>
                 /\ ret'.err = "none"
                 /\ pending'[RegBase(ret')][RegName(ret')]
                      = pending[RegBase(ret')][RegName(ret')] + 1
                 /\ attrs' = attrs
     /\ ret'.op = "decorator" =>
          /\ pending[RegBase(ret')][RegName(ret')] > 0
          /\ attrs'[RegBase(ret')][RegName(ret')] = ret'.args[3].str
          /\ \A c \in Classes, n \in Names :
               <<c, n>> # <<RegBase(ret'), RegName(ret')>> => attrs'[c][n] = attrs[c][n]]_vars

(* "value", present on Module, was installed on Signal, and a second      *)
(* register(Signal, "value") failed                                       *)
C7_Witness ==
  /\ ret.op = "register"
  /\ RegBase(ret) = "Signal"
  /\ RegName(ret) = "value"
  /\ ret.err = "NameError"
  /\ attrs["Signal"]["value"] \in MethodClasses
  /\ attrs["Module"]["value"] = "Value"

(* C8: register fails with the unsupported-owner error (ValueError) for   *)
(* every owner type other than Signal and Module themselves, subclasses   *)
(* of them included, and nothing is ever installed on such a type.        *)
C8_UnsupportedOwner ==
  /\ (ret.op = "register" /\ RegBase(ret) \notin Accepted) => ret.err = "ValueError"
  /\ \A c \in Classes \ Accepted, n \in Names :
       attrs[c][n] = "absent" /\ pending[c][n] = 0

(* register(Value, "gain") failed although gain is free and Value is a Signal *)
C8_Witness ==
  /\ ret.op = "register"
  /\ RegBase(ret) = "Value"
  /\ RegName(ret) = "gain"
  /\ ret.err = "ValueError"
  /\ ~HasAttr("Value", "gain")

(* C9: the output of a Value node is the value last set, whatever number  *)
(* of compute steps ran since, directly or through run_frame; a set that  *)
(* returned leaves the output at its argument.                            *)
C9_SetIdempotent ==
  /\ \A n \in 1 .. Len(nodes) :
       nodes[n].cls = "Value" => nodes[n].output = nodes[n].setv
  /\ (ret.op = "set" /\ ret.err = "none") => nodes[ret.args[1].val].output = ret.args[2]

(* two frames of a render ran over a node after set(3.14) *)
C9_Witness ==
  /\ pc = "render"
  /\ rnd.i >= 2
  /\ \E i \in 1 .. Len(calls) :
       /\ nodes[calls[i]].cls = "Value"
       /\ nodes[calls[i]].output = PyFloat(314)

(* C10: the render of a Value node holding v returns samples that all     *)
(* equal v; at sample rate 8000, frame size 256, v = 1.0 and one second   *)
(* it returns 8000 samples, all 1.0.                                      *)
C10_ConstantRender ==
  (Rendered /\ nodes[RenderedTarget].cls = "Value") =>
    /\ \A k \in 1 .. Len(RenderedSamples) :
         RenderedSamples[k] = nodes[RenderedTarget].output.val
    /\ ret.val.val = samplerate
    /\ (/\ samplerate = 8000
        /\ framesize = 256
        /\ nodes[RenderedTarget].output.val = 100
        /\ RenderedDur = DurDen) => Len(RenderedSamples) = 8000

(* the render of the scenario returned its 8000 samples *)
C10_Witness ==
  /\ Rendered
  /\ samplerate = 8000
  /\ framesize = 256
  /\ nodes[RenderedTarget].output = PyFloat(100)
  /\ RenderedDur = DurDen
  /\ Len(RenderedSamples) = 8000
  /\ RenderedSamples[8000] = 100

(* a factory call: the instance it was called on, and what the caller passed *)
FactorySelf(r) == r.args[1]
FactoryArgs(r) == SubSeq(r.args, 3, Len(r.args))

(* C11: a factory that returns, called on the module or on one of its     *)
(* nodes, has created a node wired to the module, with its sample rate    *)
(* and frame size, appended it at the end of the one step list and        *)
(* returned it; the step list holds every created node once, in the order *)
(* of the calls.                                                          *)
C11_OneStepList ==
  /\ Len(steps) = Len(nodes)
  /\ \A i \in 1 .. Len(steps) : steps[i] = i
  /\ \A n \in 1 .. Len(nodes) :
       /\ nodes[n].module = "M"
       /\ nodes[n].samplerate = samplerate
       /\ nodes[n].framesize = framesize
       /\ nodes[n].output.tag = "ndarray" => Len(nodes[n].output.buf) = framesize
  /\ (ret.op = "factory" /\ ret.err = "none") =>
       /\ ret.val = PySignal(Len(nodes))
       /\ steps[Len(steps)] = ret.val.val
       /\ \A i \in 1 .. Len(steps) - 1 : steps[i] # ret.val.val

(* a factory called on a node returned the second node of the module *)
C11_Witness ==
  /\ ret.op = "factory"
  /\ ret.err = "none"
  /\ FactorySelf(ret) = PySignal(1)
  /\ ret.val = PySignal(2)
  /\ steps = <<1, 2>>

(* C12: a factory installed under a name on an owner type is never       *)
(* replaced: once attrs[owner][name] is a factory it stays that factory,  *)
(* whatever register calls and decorator applications follow.             *)
C12_NeverReplaced ==
  [][\A c \in Classes, n \in Names :
       attrs[c][n] \in MethodClasses => attrs'[c][n] = attrs[c][n]]_vars

(* C13: the buffer render allocated and filled covers the duration asked *)
(* for: frame_count * frame_size is at least the number of samples        *)
(* returned, the samples returned are the first samples of the rendered   *)
(* frames, and they are no fewer than the whole samples of the duration.  *)
C13_BufferCovers ==
  [][(pc = "render" /\ ret'.op = "render" /\ ret'.err = "none") =>
       /\ rnd.i = rnd.num_frames
       /\ Len(rnd.output) = rnd.i * framesize
       /\ Len(ret'.val.buf) <= rnd.i * framesize
       /\ rnd.dur * samplerate < rnd.i * framesize * DurDen
       /\ \A k \in 1 .. Len(ret'.val.buf) : ret'.val.buf[k] = rnd.output[k]
       /\ rnd.dur * samplerate < (Len(ret'.val.buf) + 1) * DurDen]_vars

(* a render returned all the samples of a duration that ends inside a     *)
(* frame, after more than one frame                                       *)
C13_Witness ==
  /\ Rendered
  /\ (RenderedDur * samplerate) % (DurDen * framesize) # 0
  /\ Len(RenderedSamples) > framesize
  /\ Len(RenderedSamples) * DurDen = RenderedDur * samplerate

(* C14: the step list only grows at its end: no step is removed or moved; *)
(* run_frame and every step of render leave it as it is, and each frame   *)
(* of a render, of a first render or of a later one, invokes exactly the  *)
(* nodes of the step list, in its order.                                  *)
C14_StepsOnlyGrow ==
  [][/\ Len(steps') >= Len(steps)
     /\ SubSeq(steps', 1, Len(steps)) = steps
     /\ (ret'.op = "render_frames" \/ pc = "render" \/ pc' = "render") => steps' = steps
     /\ (ret'.op = "render_frames" \/ (pc = "render" /\ pc' = "render")) => calls' = steps]_vars

(* the second frame of a render ran over the two steps of a module *)
C14_Witness ==
  /\ pc = "render"
  /\ rnd.i >= 2
  /\ Len(steps) >= 2
  /\ calls = steps

(* C15: a factory call makes exactly one init call; called on a Signal,   *)
(* init receives that Signal and then the caller's arguments; called on   *)
(* the Module, init receives the caller's arguments alone.                *)
C15_InitArguments ==
  ret.op = "factory" =>
    /\ Len(ret.init) = 1
    /\ IF FactorySelf(ret).tag = "signal"
       THEN /\ Len(ret.init[1]) = Len(FactoryArgs(ret)) + 1
            /\ ret.init[1][1] = FactorySelf(ret)
            /\ \A k \in 1 .. Len(FactoryArgs(ret)) : ret.init[1][k + 1] = FactoryArgs(ret)[k]
       ELSE /\ FactorySelf(ret).tag = "module"
            /\ ret.init[1] = FactoryArgs(ret)

(* a factory called on a node with no argument returned: init got the node *)
C15_Witness ==
  /\ ret.op = "factory"
  /\ ret.err = "none"
  /\ FactorySelf(ret).tag = "signal"
  /\ FactoryArgs(ret) = <<>>
  /\ ret.init = << <<FactorySelf(ret)>> >>

(* the number of times node n occurs in the sequence q *)
Occurrences(q, n) == Cardinality({k \in 1 .. Len(q) : q[k] = n})

(* C16: a factory call whose init fails raises init's error to the caller *)
(* and leaves the step list and the nodes as they were (the               *)
(* constant-value factory given one non-numeric value fails with the      *)
(* invalid-value error); every node of the step list has completed init,  *)
(* so run_frame never executes one that did not.                          *)
C16_FailedInitNotRegistered ==
  [][ret'.op = "factory" =>
        /\ (/\ GetAttr(ClassOf(FactorySelf(ret')), ret'.args[2].str) = "Value"
            /\ Len(ret'.init[1]) = 1
            /\ ~IsNumber(ret'.init[1][1])) => ret'.err = "ValueError"
        /\ ret'.err # "none" =>
             /\ ret'.err \in {"ValueError", "TypeError"}
             /\ ret'.val = PyNone
             /\ steps' = steps
             /\ nodes' = nodes
        /\ \A k \in 1 .. Len(steps') : nodes'[steps'[k]].inits = 1]_vars

(* the module's value factory, given a string, failed while a step was    *)
(* registered                                                             *)
C16_Witness ==
  /\ ret.op = "factory"
  /\ FactorySelf(ret) = PyModule
  /\ ret.args[2] = PyStr("value")
  /\ FactoryArgs(ret) = <<PyStr("not a number")>>
  /\ ret.err = "ValueError"
  /\ Len(steps) = 1

(* C17: set with a non-numeric value fails with the invalid-value error   *)
(* and leaves the node as it was; set with a number stores it as the      *)
(* node's scalar, whatever ran before (init, frames, other sets); no      *)
(* other node and no step changes.                                        *)
C17_SetValidates ==
  [][ret'.op = "set" =>
        LET n == ret'.args[1].val
            value == ret'.args[2]
        IN /\ steps' = steps
           /\ Len(nodes') = Len(nodes)
           /\ \A m \in 1 .. Len(nodes) : m # n => nodes'[m] = nodes[m]
           /\ IF value.tag \in {"int", "float"}
              THEN ret'.err = "none" /\ nodes'[n].output = value
              ELSE ret'.err = "ValueError" /\ nodes'[n] = nodes[n]]_vars

(* a set with a string failed on a node that holds the value of an        *)
(* earlier set                                                            *)
C17_Witness ==
  /\ ret.op = "set"
  /\ ret.err = "ValueError"
  /\ ret.args[2] = PyStr("not a number")
  /\ nodes[ret.args[1].val].output = PyFloat(314)

(* C18: every node of the step list, and every node whose compute step    *)
(* was invoked, has completed init exactly once; a run of the frame loop  *)
(* invokes each registered node once, and after i frames of a render each *)
(* registered node has run i times, so num_frames times when the loop     *)
(* ends.                                                                  *)
C18_InitOnceRunPerFrame ==
  /\ \A k \in 1 .. Len(steps) : nodes[steps[k]].inits = 1
  /\ \A k \in 1 .. Len(calls) : nodes[calls[k]].inits = 1
  /\ (ret.op = "render_frames" \/ (pc = "render" /\ rnd.i > 0)) =>
       \A k \in 1 .. Len(steps) : Occurrences(calls, steps[k]) = 1
  /\ pc = "render" =>
       \A k \in 1 .. Len(steps) : rnd.counts[steps[k]] = rnd.i
  /\ LoopDone =>
       \A k \in 1 .. Len(steps) : rnd.counts[steps[k]] = rnd.num_frames

(* the loop of a render of two frames over two registered nodes has ended *)
C18_Witness ==
  /\ LoopDone
  /\ rnd.num_frames = 2
  /\ Len(steps) = 2
  /\ \A k \in 1 .. 2 : rnd.counts[steps[k]] = 2

====
